---- MODULE Spec2Model ----
(***************************************************************************)
(* Bulk-ingestion pipeline of route-quebec-worker: the per-script          *)
(* ingestion loop (build statement, batch, hand over) and d1_bulk_import,  *)
(* the staged init / upload / ingest / poll protocol against Cloudflare    *)
(* D1.  Three scripts carry their own copy of the loop and of the driver:  *)
(* ingest_digital_assets.py, ingest_montreal_opendata.py and               *)
(* ingest_real_sign_photos.py.                                             *)
(***************************************************************************)
EXTENDS Integers, Sequences, FiniteSets, TLC

\* ---------------------------------------------------------------- bounds
MaxRecords == 4        \* records the source can yield in one run
MaxBatchSize == 3      \* batch_size ranges over 1..MaxBatchSize
MaxPolls == 3          \* poll requests modelled per import job
HashMod == 256         \* range of the modelled digest
MaxStrLen == 2         \* characters of a string value of a record
MaxCols == 2           \* columns of a record given to make_sql_insert

\* ------------------------------------------------------------- constants
DQUOTE == 34           \* the character '"' removed from the ETag header
StmtSep == -1          \* the separator ";\n" of the joined payload
StmtEnd == -2          \* the trailing ";" of the joined payload

NOT_IMPORTING == "Not currently importing anything."

Scripts == {"digital_assets", "montreal_opendata", "real_sign_photos"}

VARIABLES
  script,                \* which ingestion script runs
  remote,                \* "any": the remote side may fail; "reliable":
                         \* every remote call succeeds at once
  json_error_is_request_exception,
                         \* requests >= 2.27: response.json() raises a
                         \* RequestException subclass; older: json.JSONDecodeError
  batch_size,
  nread,                 \* records read from the source so far
  built,                 \* statements built so far, in build order
  sql_statements_batch,  \* the batch buffer of the ingestion loop
  handed,                \* batches handed to d1_bulk_import, in order
  jobs,                  \* outcome of the import job of each handed batch
  pc,                    \* position of the ingestion function
  phase,                 \* position inside d1_bulk_import
  full_sql_command, hash_str, upload_url, filename, r2_etag, bookmark,
  sent,                  \* requests sent by the current import job
  sent_body,             \* what each of these requests carried
  poll_responses,        \* poll responses received by the current job
  exc,                   \* exception that aborted the current job
  printed,               \* message printed by the current job
  returned,              \* value d1_bulk_import gave back to its caller
  uploaded,              \* payloads put to the staging storage in this run
  sql_pc,                \* position of the statement builder
  table_name, data,      \* the arguments of make_sql_insert
  sql_insert,            \* the text make_sql_insert returned
  submitted_stmt,        \* the text appended to the batch buffer
  csv_row,               \* the source row a record is made of
  last_failure,          \* why the last record without a statement had none
  start_pc,              \* position of the script from its first line on
  ACCOUNT_ID, API_TOKEN, \* what os.getenv gave for the two credentials
  remote_requests,       \* requests the started script has sent
  emb_pc,                \* position of generate_all_embeddings
  emb_phase,             \* which of its three loops is running
  emb_len,               \* how many records each of its queries returned
  emb_i,                 \* records of the current loop processed
  image_vectors_batch, text_vectors_batch,
  computed,              \* the vectors whose embedding was computed, in order
  upserts,               \* the upsert requests sent, in order
  idem_pc,               \* position of the repeated ingestion
  dest,                  \* the destination table of the repeated ingestion
  source,                \* the records of its source, in file order
  run,                   \* which run over the source is going on
  cursor,                \* rows of the source read in this run
  next_uuid,             \* stands for the values uuid.uuid4() gives
  remote_table,          \* the rows of the destination table
  after_first_run,       \* the rows it held when the first run ended
  open_pc,               \* position of the open-data script's main flow
  open_fn,               \* which of its ingestion functions is running
  open_k,                \* which source file of that function is at hand
  open_i,                \* rows of that file read so far
  csv_exists,            \* which of the source files exist
  open_batch,            \* the batch buffer of the running function
  open_built,            \* the statements built in the run, in order
  open_jobs,             \* the calls of d1_bulk_import made in the run
  ds_pc,                 \* position of process_source_file
  ds_run,                \* which run of process_source_file is going on
  matches,               \* the <img> matches of the HTML source, in order
  csv_file,              \* first column of the data rows of dataset.csv
  csv_has_header,        \* dataset.csv exists and is not empty
  csv_before,            \* csv_file when the run started
  processed_refs, new_csv_rows,
  ds_i,                  \* matches the loop has taken
  requested,             \* references whose image was requested in the run
  failed_ref,            \* the reference whose download failed in the run
  html_exists,           \* the HTML source file exists
  load_failed,           \* reading dataset.csv raised IOError in the run
  write_failed,          \* appending to dataset.csv raised IOError in the run
  prev_complete          \* the run before this one ended with no failure

vars == <<script, remote, json_error_is_request_exception, batch_size, nread, built,
          sql_statements_batch, handed, jobs, pc, phase, full_sql_command,
          hash_str, upload_url, filename, r2_etag, bookmark, sent, sent_body,
          poll_responses, exc, printed, returned, uploaded,
          sql_pc, table_name, data, sql_insert, submitted_stmt, csv_row,
          last_failure, start_pc, ACCOUNT_ID, API_TOKEN, remote_requests,
          emb_pc, emb_phase, emb_len, emb_i, image_vectors_batch,
          text_vectors_batch, computed, upserts,
          idem_pc, dest, source, run, cursor, next_uuid, remote_table,
          after_first_run, open_pc, open_fn, open_k, open_i, csv_exists,
          open_batch, open_built, open_jobs,
          ds_pc, ds_run, matches, csv_file, csv_has_header, csv_before,
          processed_refs, new_csv_rows, ds_i, requested, failed_ref,
          html_exists, load_failed, write_failed, prev_complete>>

openVars == <<open_pc, open_fn, open_k, open_i, csv_exists, open_batch,
              open_built, open_jobs>>

dataVars == <<ds_pc, ds_run, matches, csv_file, csv_has_header, csv_before,
              processed_refs, new_csv_rows, ds_i, requested, failed_ref,
              html_exists, load_failed, write_failed, prev_complete>>

idemVars == <<idem_pc, dest, source, run, cursor, next_uuid, remote_table,
              after_first_run>>

sqlVars == <<sql_pc, table_name, data, sql_insert, submitted_stmt>>

keyVars == <<csv_row>>

recVars == <<last_failure>>

startVars == <<start_pc, ACCOUNT_ID, API_TOKEN, remote_requests>>

embVars == <<emb_pc, emb_phase, emb_len, emb_i, image_vectors_batch,
             text_vectors_batch, computed, upserts>>

config == <<script, remote, json_error_is_request_exception, batch_size,
            sqlVars, keyVars, recVars, startVars, embVars, idemVars,
            openVars, dataVars>>
runVars == <<nread, built, sql_statements_batch, handed, pc>>
jobLocals == <<full_sql_command, hash_str, upload_url, filename, r2_etag,
               bookmark, sent, sent_body, poll_responses, exc, printed,
               returned>>

\* ------------------------------------------------------------ pure helpers
RECURSIVE Flatten(_)
Flatten(batches) ==
  IF batches = <<>> THEN <<>>
  ELSE Head(batches) \o Flatten(Tail(batches))

Ceil(n, b) == (n + b - 1) \div b

IsPrefix(s, t) == Len(s) <= Len(t) /\ SubSeq(t, 1, Len(s)) = s

Count(s, x) == Cardinality({i \in 1..Len(s) : s[i] = x})

\* ----------------------------------------------- payload and checksum
\* full_sql_command = ";\n".join(sql_statements) + ";"
\* A statement's text is modelled by the positive number of the record it
\* was built from; the separator and the terminator are their own tokens.
RECURSIVE JoinStatements(_)
JoinStatements(stmts) ==
  IF stmts = <<>> THEN <<>>
  ELSE IF Len(stmts) = 1 THEN <<stmts[1]>>
  ELSE <<stmts[1], StmtSep>> \o JoinStatements(Tail(stmts))

\* the trailing ";" forgotten
FullSqlCommandNoTerminator(stmts) == JoinStatements(stmts)

FullSqlCommand(stmts) == JoinStatements(stmts) \o <<StmtEnd>>

\* hashlib.md5(payload).hexdigest(): a digest folded over the payload,
\* rendered as a string of hex digits (digit values 0..15).
RECURSIVE Digest(_)
Digest(payload) ==
  IF payload = <<>> THEN 7
  ELSE LET n == Len(payload)
       IN (Digest(SubSeq(payload, 1, n - 1)) * 31 + payload[n] + 3) % HashMod

HexDigest(payload) ==
  LET d == Digest(payload) IN <<d \div 16, d % 16>>

\* Some other digest than the one of this payload.
OtherHexDigest(payload) ==
  LET d == (Digest(payload) + 1) % HashMod IN <<d \div 16, d % 16>>

\* str.replace(ch, ''): every occurrence of ch is removed
Replace(str, ch) == SelectSeq(str, LAMBDA c : c # ch)

Quoted(str) == <<DQUOTE>> \o str \o <<DQUOTE>>

\* r2_response.headers.get("ETag", "")
HeaderGet(header, default) ==
  IF header.present THEN header.value ELSE default

\* ETag headers the staging storage can answer with
ETagHeaders(payload) ==
  { [present |-> TRUE,  value |-> Quoted(HexDigest(payload))],
    [present |-> TRUE,  value |-> HexDigest(payload)] }
  \cup IF remote = "reliable" THEN {}
       ELSE { [present |-> TRUE,  value |-> Quoted(OtherHexDigest(payload))],
              [present |-> FALSE, value |-> <<>>] }

\* the comparison left out: every echoed tag is accepted
ETagNeverChecked(etag, hash) == FALSE

\* if r2_etag != hash_str: raise Exception("ETag mismatch ...")
ETagMismatch(etag, hash) == etag # hash

\* the checksum salted with the number of the job
HashStrSalted(sql_statements) ==
  HexDigest(FullSqlCommand(sql_statements) \o <<Len(jobs)>>)

\* hash_str = hashlib.md5(full_sql_command.encode('utf-8')).hexdigest()
HashStr(sql_statements) == HexDigest(FullSqlCommand(sql_statements))

\* ------------------------------------------------------ request bodies
\* What a request carries: the json body of the three posts to the import
\* endpoint, the target and the data of the put to the staging storage.
Body(action, etag, fname, bm, url, payload) ==
  [action |-> action, etag |-> etag, filename |-> fname,
   current_bookmark |-> bm, url |-> url, data |-> payload]

\* json={"action": "init", "etag": hash_str}
InitBody(hash) == Body("init", hash, 0, 0, 0, <<>>)

\* requests.put(upload_url, data=full_sql_command.encode('utf-8'))
UploadBody(url, payload) == Body("put", <<>>, 0, 0, url, payload)

\* the filename of the first job of the run is sent by every job
IngestBodyFirstFilename(hash, fname) == Body("ingest", hash, 1, 0, 0, <<>>)

\* json={"action": "ingest", "etag": hash_str, "filename": filename}
IngestBody(hash, fname) == Body("ingest", hash, fname, 0, 0, <<>>)

\* the bookmark moves on with every poll response received
PollBodyAdvancing(bm) ==
  Body("poll", <<>>, 0, bm + Len(poll_responses), 0, <<>>)

\* payload = {"action": "poll", "current_bookmark": bookmark}
PollBody(bm) == Body("poll", <<>>, 0, bm, 0, <<>>)

\* ------------------------------------------------------- remote answers
InitResponses ==
  IF remote = "reliable" THEN {"ok"}
  ELSE {"ok", "network", "http", "badjson", "nofield"}

UploadFailures ==
  IF remote = "reliable" THEN {} ELSE {"network", "http"}

IngestResponses ==
  IF remote = "reliable" THEN {"ok"}
  ELSE {"ok", "network", "http", "badjson", "nofield"}

\* an error of the import itself, which no later poll will see change
NON_TRANSIENT == "Import failed: no such table."

PollResults ==
  { [success |-> TRUE],
    [success |-> FALSE, error |-> NOT_IMPORTING],
    [success |-> FALSE, error |-> "Import in progress."],
    [success |-> FALSE, error |-> NON_TRANSIENT],
    [success |-> FALSE] }

PollResponses ==
  IF remote = "reliable"
  THEN { [status |-> "ok", result |-> [success |-> TRUE]] }
  ELSE { [status |-> "ok", result |-> r] : r \in PollResults }
       \cup { [status |-> s, result |-> [success |-> FALSE]] :
                s \in {"network", "http", "badjson", "noresult"} }

\* the loop leaves only on success and polls on after the sentinel
PollDoneOnSuccessOnly(poll_result) == poll_result.success

\* the break condition of the poll loop
PollDone(poll_result) ==
  \/ poll_result.success
  \/ (~poll_result.success /\ poll_result.error = NOT_IMPORTING)

\* the two messages swapped
ReportMessageInverted(poll_result) ==
  IF poll_result.success THEN "failed" ELSE "completed"

\* if poll_result["success"]: print(completed) else: print(failed: error)
ReportMessage(poll_result) ==
  IF poll_result.success THEN "completed" ELSE "failed"

\* ---------------------------------------------------- exception handling
\* which except clause of d1_bulk_import catches e
ExceptClause(e) ==
  CASE e = "RequestException" -> "request"
    [] e = "JSONDecodeError" ->
         IF json_error_is_request_exception THEN "request" ELSE "json"
    [] OTHER -> "exception"

\* the JSONDecodeError clause of ingest_digital_assets.py formats
\* response.text, and d1_bulk_import has no name `response`
HandlerRaisesNameError(clause) ==
  clause = "json" /\ script = "digital_assets"

HandlerMessage(clause) ==
  CASE clause = "request" -> "network_error"
    [] clause = "json" ->
         IF HandlerRaisesNameError(clause) THEN "none" ELSE "decode_error"
    [] OTHER -> "unexpected_error"

\* a request error sends the job back to its init request
AfterHandlerRetry(clause) ==
  IF clause = "request" THEN "init"
  ELSE IF HandlerRaisesNameError(clause) THEN "raised" ELSE "returned"

\* where d1_bulk_import is after the except clause ran
AfterHandler(clause) ==
  IF HandlerRaisesNameError(clause) THEN "raised" ELSE "returned"

JobOutcome(msg, ph) ==
  IF ph = "raised" THEN "raised"
  ELSE IF ph # "returned" THEN "unresolved"
  ELSE CASE msg = "completed" -> "completed"
         [] msg = "failed" -> "failed"
         [] OTHER -> "error"

Terminate(e, msg, ph) ==
  /\ exc' = e
  /\ printed' = msg
  /\ phase' = ph
  /\ returned' = IF ph = "returned" THEN "None" ELSE returned
  /\ jobs' = [jobs EXCEPT ![Len(jobs)] = JobOutcome(msg, ph)]

Raise(e) ==
  Terminate(e, HandlerMessage(ExceptClause(e)), AfterHandler(ExceptClause(e)))

Finish(msg) == Terminate(exc, msg, "returned")

Continue(ph) ==
  /\ phase' = ph
  /\ UNCHANGED <<exc, printed, returned, jobs>>

\* the staging upload left out: init is followed by the ingest request
NextPhaseSkipUpload(p) ==
  CASE p = "start" -> "init"
    [] p = "init" -> "ingest"
    [] p = "upload" -> "ingest"
    [] p = "ingest" -> "poll"
    [] OTHER -> p

\* the order of the phases in the body of d1_bulk_import
NextPhase(p) ==
  CASE p = "start" -> "init"
    [] p = "init" -> "upload"
    [] p = "upload" -> "ingest"
    [] p = "ingest" -> "poll"
    [] OTHER -> p

\* ------------------------------------------------------ ingestion loop
\* off by one: the buffer is handed over one statement late
BatchFullOffByOne(buf) == Len(buf) > batch_size

\* if len(sql_statements_batch) >= batch_size:
BatchFull(buf) == Len(buf) >= batch_size

\* the reset forgotten: the handed statements stay in the buffer
BufferKeptAfterImport(buf) == buf

\* sql_statements_batch = [] after the in-loop d1_bulk_import returned
BufferAfterImport(buf) == <<>>

\* the guard left out: an empty list goes through the whole import
NoStatementsNeverChecked(sql_statements) == FALSE

\* if not sql_statements: print(...); return
NoStatements(sql_statements) == sql_statements = <<>>

\* fire and forget: the caller goes on while the job is in flight
JobNeverAwaited == TRUE

\* d1_bulk_import is a blocking call: its caller resumes only when the
\* function has returned or raised
JobResolved == phase \in {"returned", "raised"}

NoJobLocals ==
  /\ full_sql_command = <<>> /\ hash_str = <<>> /\ r2_etag = <<>>
  /\ upload_url = 0 /\ filename = 0 /\ bookmark = 0
  /\ sent = <<>> /\ sent_body = <<>> /\ poll_responses = <<>>
  /\ exc = "none" /\ printed = "none" /\ returned = "none"

\* the statement builder is not looked into: statements are numbers
SqlOff ==
  /\ sql_pc = "off" /\ table_name = "" /\ data = <<>>
  /\ sql_insert = <<>> /\ submitted_stmt = <<>>
  /\ csv_row = <<>>

\* the start of the script is not looked into: the credentials are set
StartOff ==
  /\ start_pc = "off" /\ remote_requests = 0
  /\ ACCOUNT_ID = <<"set">> /\ API_TOKEN = <<"set">>

\* the embeddings script is not looked into
EmbedOff ==
  /\ emb_pc = "off" /\ emb_phase = 0 /\ emb_len = <<>> /\ emb_i = 0
  /\ image_vectors_batch = <<>> /\ text_vectors_batch = <<>>
  /\ computed = <<>> /\ upserts = <<>>

\* the main flow of the open-data script is not looked into
OpenOff ==
  /\ open_pc = "off" /\ open_fn = 0 /\ open_k = 0 /\ open_i = 0
  /\ csv_exists = <<>> /\ open_batch = <<>>
  /\ open_built = <<>> /\ open_jobs = <<>>

\* the dataset builder is not looked into
DataOff ==
  /\ ds_pc = "off" /\ ds_run = 0 /\ matches = <<>>
  /\ csv_file = <<>> /\ csv_has_header = FALSE /\ csv_before = <<>>
  /\ processed_refs = {} /\ new_csv_rows = <<>> /\ ds_i = 0
  /\ requested = <<>> /\ failed_ref = <<>> /\ html_exists = FALSE
  /\ load_failed = FALSE /\ write_failed = FALSE
  /\ prev_complete = FALSE

\* the destination table is not looked into
IdemOff ==
  /\ idem_pc = "off" /\ dest = "" /\ source = <<>> /\ run = 0
  /\ cursor = 0 /\ next_uuid = 0
  /\ remote_table = {} /\ after_first_run = {}

Init ==
  /\ script \in Scripts
  /\ remote \in {"any", "reliable"}
  /\ json_error_is_request_exception \in BOOLEAN
  /\ batch_size \in 1..MaxBatchSize
  /\ SqlOff
  /\ IdemOff
  /\ StartOff
  /\ EmbedOff
  /\ OpenOff
  /\ DataOff
  /\ last_failure = "none"
  /\ nread = 0
  /\ built = <<>>
  /\ sql_statements_batch = <<>>
  /\ handed = <<>>
  /\ jobs = <<>>
  /\ uploaded = <<>>
  /\ pc = "loop"
  /\ phase = "idle"
  /\ NoJobLocals

\* d1_bulk_import(table, batch) is entered from position `where`
CallImport(batch, where) ==
  /\ handed' = Append(handed, batch)
  /\ jobs' = Append(jobs, "unresolved")
  /\ phase' = "start"
  /\ pc' = where
  /\ UNCHANGED jobLocals

\* a record that yields no statement: the image upload failed (continue),
\* or a field conversion raised inside the row's try block
SkipRecord ==
  /\ pc = "loop" /\ phase = "idle"
  /\ nread < MaxRecords
  /\ nread' = nread + 1
  /\ UNCHANGED <<config, uploaded, built, sql_statements_batch, handed, jobs, pc,
                 phase, jobLocals>>

\* one iteration of the loop: build the statement, append it, and hand the
\* buffer over when it is full
AppendRecord ==
  /\ pc = "loop" /\ phase = "idle"
  /\ nread < MaxRecords
  /\ nread' = nread + 1
  /\ LET stmt == nread + 1
         buf == Append(sql_statements_batch, stmt)
     IN /\ built' = Append(built, stmt)
        /\ sql_statements_batch' = buf
        /\ IF BatchFull(buf)
           THEN CallImport(buf, "in_import")
           ELSE UNCHANGED <<handed, jobs, phase, pc, jobLocals>>
  /\ UNCHANGED <<config, uploaded>>

\* the source is exhausted: "if sql_statements_batch: d1_bulk_import(...)"
EndOfInput ==
  /\ pc = "loop" /\ phase = "idle"
  /\ IF sql_statements_batch # <<>>
     THEN CallImport(sql_statements_batch, "in_flush")
     ELSE /\ pc' = "done"
          /\ UNCHANGED <<handed, jobs, phase, jobLocals>>
  /\ UNCHANGED <<config, uploaded, nread, built, sql_statements_batch>>

\* d1_bulk_import is left; its locals are gone.  A call that returned lets
\* the loop reset the buffer; one that raised skips the reset and is caught
\* by the row's try block (open-data loops) or ends the script.
ReturnToCaller ==
  /\ pc \in {"in_import", "in_flush", "direct"}
  /\ JobResolved
  /\ phase' = "idle"
  /\ full_sql_command' = <<>> /\ hash_str' = <<>> /\ r2_etag' = <<>>
  /\ upload_url' = 0 /\ filename' = 0 /\ bookmark' = 0
  /\ sent' = <<>> /\ sent_body' = <<>> /\ poll_responses' = <<>>
  /\ exc' = "none" /\ printed' = "none" /\ returned' = "none"
  /\ IF phase = "raised"
     THEN /\ pc' = IF pc = "in_import" /\ script = "montreal_opendata"
                   THEN "loop" ELSE "crashed"
          /\ UNCHANGED sql_statements_batch
     ELSE IF pc = "in_import"
     THEN /\ pc' = "loop"
          /\ sql_statements_batch' = BufferAfterImport(sql_statements_batch)
     ELSE /\ pc' = "done"
          /\ UNCHANGED sql_statements_batch
  /\ UNCHANGED <<config, uploaded, nread, built, handed, jobs>>

\* ------------------------------------------------------ d1_bulk_import
\* entry: empty check, database lookup (inside the function only in
\* ingest_digital_assets.py), payload and checksum
StartJob ==
  /\ phase = "start"
  /\ LET sql_statements == handed[Len(handed)]
     IN IF NoStatements(sql_statements)
        THEN /\ Finish("no_statements")
             /\ UNCHANGED <<full_sql_command, hash_str>>
        ELSE \/ /\ script = "digital_assets" /\ remote # "reliable"
                /\ Finish("no_database")
                /\ UNCHANGED <<full_sql_command, hash_str>>
             \/ /\ full_sql_command' = FullSqlCommand(sql_statements)
                /\ hash_str' = HashStr(sql_statements)
                /\ Continue(NextPhase("start"))
  /\ UNCHANGED <<config, uploaded, runVars, upload_url, filename, r2_etag, bookmark,
                 sent, sent_body, poll_responses>>

\* 1. Init upload
InitRequest ==
  /\ phase = "init"
  /\ sent' = Append(sent, "init")
  /\ sent_body' = Append(sent_body, InitBody(hash_str))
  /\ \E r \in InitResponses :
       CASE r = "ok" ->
              /\ upload_url' = Len(jobs)
              /\ filename' = Len(jobs)
              /\ Continue(NextPhase("init"))
         [] r \in {"network", "http"} ->
              /\ Raise("RequestException")
              /\ UNCHANGED <<upload_url, filename>>
         [] r = "badjson" ->
              /\ Raise("JSONDecodeError")
              /\ UNCHANGED <<upload_url, filename>>
         [] OTHER ->
              /\ Raise("KeyError")
              /\ UNCHANGED <<upload_url, filename>>
  /\ UNCHANGED <<config, uploaded, runVars, full_sql_command, hash_str, r2_etag,
                 bookmark, poll_responses>>

\* 2. Upload to R2 and compare the echoed ETag
UploadRequest ==
  /\ phase = "upload"
  /\ sent' = Append(sent, "upload")
  /\ sent_body' = Append(sent_body, UploadBody(upload_url, full_sql_command))
  /\ uploaded' = Append(uploaded, full_sql_command)
  /\ \/ /\ \E r \in UploadFailures : Raise("RequestException")
        /\ UNCHANGED r2_etag
     \/ \E header \in ETagHeaders(full_sql_command) :
          LET etag == Replace(HeaderGet(header, <<>>), DQUOTE)
          IN /\ r2_etag' = etag
             /\ IF ETagMismatch(etag, hash_str)
                THEN Raise("Exception")
                ELSE Continue(NextPhase("upload"))
  /\ UNCHANGED <<config, runVars, full_sql_command, hash_str, upload_url,
                 filename, bookmark, poll_responses>>

\* 3. Start ingestion, and read the bookmark of its answer
IngestRequest ==
  /\ phase = "ingest"
  /\ sent' = Append(sent, "ingest")
  /\ sent_body' = Append(sent_body, IngestBody(hash_str, filename))
  /\ \E r \in IngestResponses :
       CASE r = "ok" ->
              /\ bookmark' = Len(jobs)
              /\ Continue(NextPhase("ingest"))
         [] r \in {"network", "http"} ->
              /\ Raise("RequestException")
              /\ UNCHANGED bookmark
         [] r = "badjson" ->
              /\ Raise("JSONDecodeError")
              /\ UNCHANGED bookmark
         [] OTHER ->
              /\ Raise("KeyError")
              /\ UNCHANGED bookmark
  /\ UNCHANGED <<config, uploaded, runVars, full_sql_command, hash_str, upload_url,
                 filename, r2_etag, poll_responses>>

\* what one poll response does to the job: an exception, the break and
\* the report after the loop, or time.sleep(2) before the next poll
PollOutcome(resp) ==
  CASE resp.status \in {"network", "http"} -> Raise("RequestException")
    [] resp.status = "badjson" -> Raise("JSONDecodeError")
    [] resp.status = "noresult" -> Raise("KeyError")
    [] OTHER ->
         LET poll_result == resp.result
         IN IF ~poll_result.success /\ "error" \notin DOMAIN poll_result
            THEN Raise("KeyError")
            ELSE IF PollDone(poll_result)
            THEN Finish(ReportMessage(poll_result))
            ELSE Continue("sleep")

\* 4. One iteration of the poll loop; on break, the report after the loop
PollRequest ==
  /\ phase = "poll"
  /\ Count(sent, "poll") < MaxPolls
  /\ sent' = Append(sent, "poll")
  /\ sent_body' = Append(sent_body, PollBody(bookmark))
  /\ \E resp \in PollResponses :
       /\ poll_responses' = Append(poll_responses, resp)
       /\ PollOutcome(resp)
  /\ UNCHANGED <<config, uploaded, runVars, full_sql_command, hash_str, upload_url,
                 filename, r2_etag, bookmark>>

\* time.sleep(2), then the next iteration of "while True"
Sleep ==
  /\ phase = "sleep"
  /\ phase' = "poll"
  /\ UNCHANGED <<config, uploaded, runVars, jobs, jobLocals>>

\* the polls after the MaxPolls-th: the loop has no bound of its own, the
\* requests and responses beyond the modelled ones are no longer listed
PollBeyondBound ==
  /\ phase = "poll"
  /\ Count(sent, "poll") >= MaxPolls
  /\ \E resp \in PollResponses : PollOutcome(resp)
  /\ UNCHANGED <<config, uploaded, runVars, full_sql_command, hash_str, upload_url,
                 filename, r2_etag, bookmark, sent, sent_body, poll_responses>>

Next ==
  \/ SkipRecord
  \/ AppendRecord
  \/ EndOfInput
  \/ ReturnToCaller
  \/ StartJob
  \/ InitRequest
  \/ UploadRequest
  \/ IngestRequest
  \/ PollRequest
  \/ Sleep

Spec == Init /\ [][Next]_vars

\* d1_bulk_import called on its own with any list of statements, the empty
\* one included, besides the calls the ingestion loops make
DirectCall ==
  /\ script \in Scripts
  /\ remote \in {"any", "reliable"}
  /\ json_error_is_request_exception \in BOOLEAN
  /\ batch_size = MaxBatchSize
  /\ SqlOff
  /\ IdemOff
  /\ StartOff
  /\ EmbedOff
  /\ OpenOff
  /\ DataOff
  /\ last_failure = "none"
  /\ nread = 0
  /\ \E n \in 0..MaxBatchSize :
       /\ built = [i \in 1..n |-> i]
       /\ handed = <<built>>
  /\ sql_statements_batch = <<>>
  /\ jobs = <<"unresolved">>
  /\ uploaded = <<>>
  /\ pc = "direct"
  /\ phase = "start"
  /\ NoJobLocals

InitCall == Init \/ DirectCall

SpecCall == InitCall /\ [][Next]_vars

\* ------------------------------------- records that yield no statement
\* what the image service can answer to an upload, "ok" apart; the file
\* may also be missing before any request
ImageUploadFailures ==
  {"file_missing", "network", "http", "badjson", "api_error", "nofield"}

\* upload_image_to_cf_images: None when the file is missing, on a
\* RequestException, on an undecodable body (either except clause) and on
\* success = false; a body without the expected fields raises KeyError,
\* which neither except clause catches
upload_image_to_cf_images(answer) ==
  CASE answer = "ok" -> "url"
    [] answer = "nofield" -> "KeyError"
    [] OTHER -> "None"

\* why a record of this script may have no statement
FailuresOf(scr) ==
  CASE scr = "montreal_opendata" -> {"conversion"}
    [] scr = "real_sign_photos" -> ImageUploadFailures \cup {"invalid_path"}
    [] OTHER -> ImageUploadFailures

\* what the loop does with the record: "continue" after a failed upload
\* or an invalid path, the except clause of the row's try block in the
\* open-data loops; an exception of the upload leaves the loop
AfterFailure(scr, cause) ==
  IF scr # "montreal_opendata" /\ cause # "invalid_path"
     /\ upload_image_to_cf_images(cause) = "KeyError"
  THEN "aborted" ELSE "loop"

UnbuildableRecord ==
  /\ pc = "loop" /\ phase = "idle"
  /\ nread < MaxRecords
  /\ nread' = nread + 1
  /\ \E cause \in FailuresOf(script) :
       /\ last_failure' = cause
       /\ pc' = AfterFailure(script, cause)
  /\ UNCHANGED <<script, remote, json_error_is_request_exception, batch_size,
                 sqlVars, keyVars, idemVars, startVars, embVars, openVars,
                 dataVars, uploaded, built,
                 sql_statements_batch, handed, jobs, phase, jobLocals>>

NextRecord ==
  \/ UnbuildableRecord
  \/ AppendRecord
  \/ EndOfInput
  \/ ReturnToCaller
  \/ StartJob
  \/ InitRequest
  \/ UploadRequest
  \/ IngestRequest
  \/ PollRequest
  \/ Sleep

InitRecord == Init /\ remote = "any" /\ json_error_is_request_exception

SpecRecord == InitRecord /\ [][NextRecord]_vars

\* The script is one thread that is never blocked for good: every request
\* returns (timeout=30/60), so each enabled step of the run is taken.
NextLive == Next \/ PollBeyondBound

SpecLive ==
  /\ Init
  /\ [][NextLive]_vars
  /\ WF_vars(SkipRecord \/ AppendRecord \/ EndOfInput)
  /\ WF_vars(ReturnToCaller)
  /\ WF_vars(StartJob)
  /\ WF_vars(InitRequest)
  /\ WF_vars(UploadRequest)
  /\ WF_vars(IngestRequest)
  /\ WF_vars(PollRequest \/ PollBeyondBound)
  /\ WF_vars(Sleep)

TypeOK ==
  /\ script \in Scripts
  /\ batch_size \in 1..MaxBatchSize
  /\ nread \in 0..MaxRecords
  /\ pc \in {"loop", "in_import", "in_flush", "direct", "done", "crashed",
            "aborted"}
  /\ phase \in {"idle", "start", "init", "upload", "ingest", "poll",
                "sleep", "returned", "raised"}

\* ---------------------------------------------- the statement builder
\* A text is a sequence of characters; the texts "INSERT INTO",
\* "INSERT OR REPLACE INTO", "NULL", ") VALUES (" and the like, which the
\* code writes or searches as a whole, are one element each.
Chars == {"a", "'", ", ", "INSERT INTO"}

RECURSIVE Strings(_)
Strings(n) ==
  IF n = 0 THEN {<<>>}
  ELSE Strings(n - 1)
       \cup {Append(str, c) : str \in Strings(n - 1), c \in Chars}

\* the values a record can map a column to
PyNone == [type |-> "NoneType"]

PyValues ==
  {PyNone}
  \cup {[type |-> "str", str |-> x] :
          x \in Strings(MaxStrLen) \cup {<<"None">>, <<"null">>, <<"NULL">>}}
  \cup {[type |-> "int", int |-> n] : n \in {0, 7}}
  \cup {[type |-> "bool", bool |-> b] : b \in BOOLEAN}
  \cup {[type |-> "list", items |-> <<"a">>]}

\* the types the destination columns take: text, numbers, booleans, NULL
SupportedTypes == {"NoneType", "str", "int", "bool"}

ColumnNames == <<"sign_code", "category", "latitude", "is_synthetic">>

\* a dict in insertion order: a sequence of (column, value) items
\* the values of the i-th column: the first takes every value, the second
\* every value of at most one character, the coordinate and the flag a
\* number, a boolean, NULL or a stray string
ColumnValues(i) ==
  CASE i = 1 -> PyValues
    [] i = 2 -> {v \in PyValues : v.type = "str" => Len(v.str) <= 1}
    [] OTHER -> {PyNone, [type |-> "int", int |-> 7],
                 [type |-> "bool", bool |-> TRUE],
                 [type |-> "str", str |-> <<"'">>]}

RECURSIVE RecordsOfLen(_)
RecordsOfLen(k) ==
  IF k = 0 THEN {<<>>}
  ELSE {Append(r, [col |-> ColumnNames[k], val |-> v]) :
          r \in RecordsOfLen(k - 1), v \in ColumnValues(k)}

Records(n) ==
  UNION {RecordsOfLen(k) : k \in 0..n}

TablesOf(scr) ==
  CASE scr = "digital_assets" -> {"sign_definitions"}
    [] scr = "real_sign_photos" -> {"real_sign_photos"}
    [] OTHER -> {"poles", "taxi_stands"}

\* text.replace(old, new): every occurrence of old becomes the text new
RECURSIVE StrReplace(_, _, _)
StrReplace(text, old, new) ==
  IF text = <<>> THEN <<>>
  ELSE (IF Head(text) = old THEN new ELSE <<Head(text)>>)
       \o StrReplace(Tail(text), old, new)

\* sep.join(texts)
RECURSIVE StrJoin(_, _)
StrJoin(texts, sep) ==
  IF texts = <<>> THEN <<>>
  ELSE IF Len(texts) = 1 THEN texts[1]
  ELSE texts[1] \o <<sep>> \o StrJoin(Tail(texts), sep)

\* str(v)
Str(v) ==
  CASE v.type = "str" -> v.str
    [] v.type = "int" -> <<ToString(v.int)>>
    [] v.type = "bool" -> IF v.bool THEN <<"True">> ELSE <<"False">>
    [] v.type = "list" ->
         <<"[">> \o StrJoin([i \in 1..Len(v.items) |->
                               <<"'", v.items[i], "'">>], ", ") \o <<"]">>
    [] OTHER -> <<"None">>

\* python truth value of v
Truthy(v) ==
  CASE v.type = "NoneType" -> FALSE
    [] v.type = "str" -> v.str # <<>>
    [] v.type = "int" -> v.int # 0
    [] v.type = "list" -> v.items # <<>>
    [] OTHER -> v.bool

\* "if v" written for "if v is not None": 0, False and '' become NULL
RenderValueIfTruthy(v) ==
  IF Truthy(v)
  THEN <<"'">> \o StrReplace(Str(v), "'", <<"'", "'">>) \o <<"'">>
  ELSE <<"NULL">>

\* f"'{str(v).replace("'", "''")}'" if v is not None else "NULL"
RenderValue(v) ==
  IF v # PyNone
  THEN <<"'">> \o StrReplace(Str(v), "'", <<"'", "'">>) \o <<"'">>
  ELSE <<"NULL">>

\* the values listed from the last column to the first
DictValuesReversed(d) == [i \in 1..Len(d) |-> d[Len(d) + 1 - i].val]

\* data.keys() and data.values(): both in insertion order
DictKeys(d) == [i \in 1..Len(d) |-> d[i].col]

DictValues(d) == [i \in 1..Len(d) |-> d[i].val]

make_sql_insert(table, d) ==
  LET columns == StrJoin([i \in 1..Len(d) |-> <<DictKeys(d)[i]>>], ", ")
      values == StrJoin([i \in 1..Len(d) |-> RenderValue(DictValues(d)[i])],
                        ", ")
  IN <<"INSERT INTO", " ", table, " (">> \o columns
       \o <<") VALUES (">> \o values \o <<")">>

\* the replace forgotten: the plain insert is appended
NoUpsert(text) == text

\* .replace("INSERT INTO", "INSERT OR REPLACE INTO") at every append
ToUpsert(text) == StrReplace(text, "INSERT INTO", <<"INSERT OR REPLACE INTO">>)

RunInit ==
  /\ nread = 0 /\ built = <<>> /\ sql_statements_batch = <<>>
  /\ handed = <<>> /\ jobs = <<>> /\ uploaded = <<>>
  /\ pc = "loop" /\ phase = "idle"
  /\ NoJobLocals
  /\ last_failure = "none"

\* one row of a source: its record is about to be turned into a statement
InitSql ==
  /\ script \in Scripts
  /\ remote = "any"
  /\ json_error_is_request_exception = TRUE
  /\ batch_size = 1
  /\ RunInit
  /\ OpenOff
  /\ DataOff
  /\ StartOff
  /\ EmbedOff
  /\ sql_pc = "row"
  /\ table_name \in TablesOf(script)
  /\ data \in Records(MaxCols)
  /\ sql_insert = <<>>
  /\ submitted_stmt = <<>>
  /\ csv_row = <<>>
  /\ IdemOff

runAndJob == <<script, remote, json_error_is_request_exception, batch_size,
               runVars, jobs, phase, jobLocals, uploaded, keyVars, recVars,
               startVars, embVars, idemVars, openVars, dataVars>>

MakeSqlInsert ==
  /\ sql_pc = "row"
  /\ sql_insert' = make_sql_insert(table_name, data)
  /\ sql_pc' = "made"
  /\ UNCHANGED <<runAndJob, table_name, data, submitted_stmt>>

AppendUpsert ==
  /\ sql_pc = "made"
  /\ submitted_stmt' = ToUpsert(sql_insert)
  /\ sql_pc' = "appended"
  /\ UNCHANGED <<runAndJob, table_name, data, sql_insert>>

NextSql == MakeSqlInsert \/ AppendUpsert

SpecSql == InitSql /\ [][NextSql]_vars

\* ------------------------------------- running an ingestion twice
\* An ingestion function is run to its end over a source, and then once
\* more from the beginning over the same source; the remote side applies
\* every statement it is handed.
MaxSource == 3

Destinations == {"poles", "montreal_open_data_sign_instances",
                 "construction_zones", "construction_impact_details",
                 "taxi_stands", "sign_definitions"}

ScriptOf(table) ==
  IF table = "sign_definitions" THEN "digital_assets" ELSE "montreal_opendata"

\* the tables whose key column is filled with str(uuid.uuid4()):
\* instance_id, impact_id, taxi_stand_id.  The others take it from the
\* source row: pole_id, permit_id, sign_code.
UuidKeyed(table) ==
  table \in {"montreal_open_data_sign_instances",
             "construction_impact_details", "taxi_stands"}

\* the sources: up to MaxSource rows, each a different record
Sources ==
  UNION { { f \in [1..n -> 1..MaxSource] :
              \A i, j \in 1..n : f[i] = f[j] => i = j } : n \in 1..MaxSource }

\* the row a source record becomes: its key and the record it came from
RowOf(table, rec, uuid) ==
  [key |-> IF UuidKeyed(table) THEN <<"uuid4", uuid>> ELSE <<"source", rec>>,
   record |-> rec]

\* INSERT OR REPLACE: the row takes the place of the row with its key
Upsert(table_rows, row) ==
  {r \in table_rows : r.key # row.key} \cup {row}

RECURSIVE ApplyBatch(_, _)
ApplyBatch(table_rows, stmts) ==
  IF stmts = <<>> THEN table_rows
  ELSE ApplyBatch(Upsert(table_rows, Head(stmts)), Tail(stmts))

idemFixed == <<script, remote, json_error_is_request_exception, nread, built,
               handed, jobs, pc, phase, jobLocals, uploaded, sqlVars,
               keyVars, recVars, startVars, embVars, openVars, dataVars>>

InitIdem ==
  /\ dest \in Destinations
  /\ script = ScriptOf(dest)
  /\ remote = "reliable"
  /\ json_error_is_request_exception = TRUE
  /\ batch_size \in 1..MaxBatchSize
  /\ RunInit
  /\ OpenOff
  /\ DataOff
  /\ StartOff
  /\ EmbedOff
  /\ SqlOff
  /\ idem_pc = "loop"
  /\ source \in Sources
  /\ run = 1
  /\ cursor = 0
  /\ next_uuid = 1
  /\ remote_table = {}
  /\ after_first_run = {}

\* one turn of the row loop: the row's statement is appended, and a full
\* buffer is imported and emptied
IngestRow ==
  /\ idem_pc = "loop"
  /\ cursor < Len(source)
  /\ LET row == RowOf(dest, source[cursor + 1], next_uuid)
         buf == Append(sql_statements_batch, row)
     IN  /\ cursor' = cursor + 1
         /\ next_uuid' = IF UuidKeyed(dest) THEN next_uuid + 1 ELSE next_uuid
         /\ IF BatchFull(buf)
            THEN /\ remote_table' = ApplyBatch(remote_table, buf)
                 /\ sql_statements_batch' = BufferAfterImport(buf)
            ELSE /\ sql_statements_batch' = buf
                 /\ UNCHANGED remote_table
  /\ UNCHANGED <<idemFixed, batch_size, idem_pc, dest, source, run,
                 after_first_run>>

\* the end of the source: what is left in the buffer is imported
EndOfSource ==
  /\ idem_pc = "loop"
  /\ cursor = Len(source)
  /\ remote_table' = ApplyBatch(remote_table, sql_statements_batch)
  /\ sql_statements_batch' = <<>>
  /\ idem_pc' = "done"
  /\ UNCHANGED <<idemFixed, batch_size, dest, source, run, cursor, next_uuid,
                 after_first_run>>

\* the same function is started again over the same source
RunAgain ==
  /\ idem_pc = "done"
  /\ run = 1
  /\ after_first_run' = remote_table
  /\ run' = 2
  /\ cursor' = 0
  /\ idem_pc' = "loop"
  /\ UNCHANGED <<idemFixed, batch_size, sql_statements_batch, dest, source,
                 next_uuid, remote_table>>

NextIdem == IngestRow \/ EndOfSource \/ RunAgain

SpecIdem == InitIdem /\ [][NextIdem]_vars

\* ------------------------------------------- from a source row to a record
\* A cell of a csv.DictReader row: the column may be missing from the
\* header (row[k] raises KeyError, row.get(k) is None), and a row shorter
\* than the header has None in the columns it does not reach.
Cells ==
  {[in_header |-> FALSE, val |-> PyNone], [in_header |-> TRUE, val |-> PyNone]}
  \cup {[in_header |-> TRUE, val |-> [type |-> "str", str |-> x]] :
          x \in {<<>>, <<"a">>, <<"'">>}}

KeyTables == Destinations \cup {"real_sign_photos"}

ScriptOfTable(table) ==
  CASE table = "sign_definitions" -> "digital_assets"
    [] table = "real_sign_photos" -> "real_sign_photos"
    [] OTHER -> "montreal_opendata"

\* the first column of the record built for each table
KeyColumn(table) ==
  CASE table = "sign_definitions" -> "sign_code"
    [] table = "poles" -> "pole_id"
    [] table = "montreal_open_data_sign_instances" -> "instance_id"
    [] table = "construction_zones" -> "permit_id"
    [] table = "construction_impact_details" -> "impact_id"
    [] table = "taxi_stands" -> "taxi_stand_id"
    [] OTHER -> "photo_id"

\* row['reference_id'], row['POTEAU_ID_POT'], row['id']; the other tables
\* get str(uuid.uuid4())
KeyFromSource(table) ==
  table \in {"sign_definitions", "poles", "construction_zones"}

\* a column read with row.get(...) next to the key
OptionalColumn(table) ==
  CASE table = "sign_definitions" -> "explanation_fr"
    [] table = "poles" -> "date_conception"
    [] table = "montreal_open_data_sign_instances" -> "panel_id"
    [] table = "construction_zones" -> "permit_number"
    [] table = "construction_impact_details" -> "street_id"
    [] table = "taxi_stands" -> "status"
    [] OTHER -> "municipality"

\* row.get(k)
RowGet(cell) == IF cell.in_header THEN cell.val ELSE PyNone

\* row.get('explanation', '') or f"Panneau ...", x if x else None,
\* row.get(...)
OptionalValue(table, cell) ==
  CASE table = "sign_definitions" ->
         IF Truthy(RowGet(cell)) THEN RowGet(cell)
         ELSE [type |-> "str", str |-> <<"Panneau de signalisation">>]
    [] table = "real_sign_photos" ->
         IF Truthy(RowGet(cell)) THEN RowGet(cell) ELSE PyNone
    [] OTHER -> RowGet(cell)

KeyValue(table, cell) ==
  IF KeyFromSource(table) THEN cell.val
  ELSE [type |-> "str", str |-> <<"uuid4">>]

InitKey ==
  /\ table_name \in KeyTables
  /\ script = ScriptOfTable(table_name)
  /\ remote = "any"
  /\ json_error_is_request_exception = TRUE
  /\ batch_size = 1
  /\ RunInit
  /\ OpenOff
  /\ DataOff
  /\ StartOff
  /\ EmbedOff
  /\ IdemOff
  /\ sql_pc = "source"
  /\ csv_row \in [1..2 -> Cells]
  /\ data = <<>>
  /\ sql_insert = <<>>
  /\ submitted_stmt = <<>>

\* the record is built from the row.  row[key] on a column the header
\* lacks raises KeyError: the row's try block of the open-data loops skips
\* the row, the digital-assets loop has none and the script ends.
ReadRow ==
  /\ sql_pc = "source"
  /\ IF KeyFromSource(table_name) /\ ~csv_row[1].in_header
     THEN /\ sql_pc' = IF table_name = "sign_definitions"
                       THEN "crashed" ELSE "skipped"
          /\ UNCHANGED data
     ELSE /\ data' = << [col |-> KeyColumn(table_name),
                         val |-> KeyValue(table_name, csv_row[1])],
                        [col |-> OptionalColumn(table_name),
                         val |-> OptionalValue(table_name, csv_row[2])] >>
          /\ sql_pc' = "row"
  /\ UNCHANGED <<runAndJob, table_name, sql_insert, submitted_stmt>>

NextKey == ReadRow \/ MakeSqlInsert \/ AppendUpsert

SpecKey == InitKey /\ [][NextKey]_vars

\* ------------------------------------------------ the start of a script
\* The first lines of each script read the two credentials from the
\* environment and leave with exit(1) when one is not set; all but
\* ingest_digital_assets.py then look the database up (leaving when it is
\* not found), and only then the main function runs.
StartScripts == Scripts \cup {"generate_embeddings"}

\* os.getenv(name): None when the variable is not set, else its text
EnvValues == {<<"None">>, <<>>, <<"set">>}

\* python truth value of what os.getenv gave
EnvTruthy(v) == v # <<"None">> /\ v # <<>>

\* "and" written for "or": the script leaves only when both are missing
CredentialsMissingBoth(account, token) ==
  ~EnvTruthy(account) /\ ~EnvTruthy(token)

\* if not ACCOUNT_ID or not API_TOKEN:
CredentialsMissing(account, token) ==
  ~EnvTruthy(account) \/ ~EnvTruthy(token)

InitStart ==
  /\ script \in StartScripts
  /\ remote = "any"
  /\ json_error_is_request_exception = TRUE
  /\ batch_size = 1
  /\ RunInit
  /\ OpenOff
  /\ DataOff
  /\ SqlOff
  /\ IdemOff
  /\ EmbedOff
  /\ start_pc = "module"
  /\ ACCOUNT_ID \in EnvValues
  /\ API_TOKEN \in EnvValues
  /\ remote_requests = 0

startFixed == <<script, remote, json_error_is_request_exception, batch_size,
                sql_statements_batch, handed, jobs, pc, phase, jobLocals,
                uploaded, sqlVars, keyVars, recVars, idemVars, embVars,
                ACCOUNT_ID, API_TOKEN, openVars, dataVars>>

\* print("ERROR: ... must be set."); exit(1)
CheckCredentials ==
  /\ start_pc = "module"
  /\ start_pc' = IF CredentialsMissing(ACCOUNT_ID, API_TOKEN) THEN "exited"
                 ELSE IF script = "digital_assets" THEN "main"
                 ELSE "db_lookup"
  /\ UNCHANGED <<startFixed, nread, built, remote_requests>>

\* DATABASE_ID = get_d1_database_id(DB_NAME); if not DATABASE_ID: exit(1)
LookupDatabase ==
  /\ start_pc = "db_lookup"
  /\ \E found \in BOOLEAN : start_pc' = IF found THEN "main" ELSE "exited"
  /\ UNCHANGED <<startFixed, nread, built, remote_requests>>

\* the main function at work on one record: it is read, a request may be
\* sent for it (image upload, embedding, import, vector upsert) and a
\* statement may be built from it
ProcessRecord ==
  /\ start_pc = "main"
  /\ nread < MaxRecords
  /\ nread' = nread + 1
  /\ \E requests \in 0..1 : remote_requests' = remote_requests + requests
  /\ \/ built' = Append(built, nread + 1)
     \/ UNCHANGED built
  /\ UNCHANGED <<startFixed, start_pc>>

NextStart == CheckCredentials \/ LookupDatabase \/ ProcessRecord

SpecStart == InitStart /\ [][NextStart]_vars

\* ------------------------------------------- generate_all_embeddings
\* Three loops, each over the rows of one query: image embeddings of the
\* sign definitions, image embeddings of the real photos, text embeddings
\* of the explanations.  A vector is known by its metadata type and the
\* number of its row.  batch_size stands for the 50 of the script.
MaxEmbedRows == 2

IMAGE_VECTORIZE_INDEX_ID == "quebec-sign-images-vector-index"

TEXT_VECTORIZE_INDEX_ID == "quebec-sign-text-vector-index"

VectorTypes == <<"sign_definition", "real_photo", "sign_explanation">>

\* the index each loop passes to insert_embeddings_to_vectorize
IndexOfLoop(loop) ==
  IF loop = 3 THEN TEXT_VECTORIZE_INDEX_ID ELSE IMAGE_VECTORIZE_INDEX_ID

\* what the AI service and the vector index can answer
AiAnswers == {"ok", "network", "http", "badjson", "api_error", "nofield"}

UpsertAnswers == {"ok", "network", "http", "badjson", "api_error", "nofield"}

\* generate_image_embedding, generate_text_embedding: the data, None on
\* the errors the function catches or reports; a body without the
\* expected fields raises KeyError, which no except clause catches
generate_embedding(answer) ==
  CASE answer = "ok" -> "data"
    [] answer = "nofield" -> "KeyError"
    [] OTHER -> "None"

\* insert_embeddings_to_vectorize: prints and returns, but for KeyError
insert_embeddings_to_vectorize(answer) ==
  IF answer = "nofield" THEN "KeyError" ELSE "None"

InitEmbed ==
  /\ script = "generate_embeddings"
  /\ remote = "any"
  /\ json_error_is_request_exception = TRUE
  /\ batch_size \in 1..MaxBatchSize
  /\ RunInit
  /\ OpenOff
  /\ DataOff
  /\ SqlOff
  /\ IdemOff
  /\ StartOff
  /\ emb_pc = "loop"
  /\ emb_phase = 1
  /\ emb_len \in [1..3 -> 0..MaxEmbedRows]
  /\ emb_i = 0
  /\ image_vectors_batch = <<>>
  /\ text_vectors_batch = <<>>
  /\ computed = <<>>
  /\ upserts = <<>>

embFixed == <<script, remote, json_error_is_request_exception, batch_size,
              runVars, jobs, phase, jobLocals, uploaded, sqlVars, keyVars,
              recVars, startVars, idemVars, openVars, dataVars>>

VectorsBatch == IF emb_phase = 3 THEN text_vectors_batch
                ELSE image_vectors_batch

SetVectorsBatch(batch) ==
  IF emb_phase = 3
  THEN text_vectors_batch' = batch /\ UNCHANGED image_vectors_batch
  ELSE image_vectors_batch' = batch /\ UNCHANGED text_vectors_batch

\* one request to the upsert endpoint of the index, carrying the batch
UpsertRequest(batch, answer) ==
  upserts' = Append(upserts, [index |-> IndexOfLoop(emb_phase),
                              vectors |-> batch])

\* one turn of a loop: the embedding, the append when there is one, and
\* the upsert and the reset when the batch is full
EmbedRecord ==
  /\ emb_pc = "loop"
  /\ emb_i < emb_len[emb_phase]
  /\ emb_i' = emb_i + 1
  /\ \E answer \in AiAnswers :
       LET embedding == generate_embedding(answer)
           vector == [type |-> VectorTypes[emb_phase], id |-> emb_i + 1]
           batch == IF embedding = "data" THEN Append(VectorsBatch, vector)
                    ELSE VectorsBatch
       IN IF embedding = "KeyError"
          THEN /\ emb_pc' = "aborted"
               /\ UNCHANGED <<image_vectors_batch, text_vectors_batch,
                              computed, upserts>>
          ELSE /\ computed' = IF embedding = "data"
                              THEN Append(computed, vector) ELSE computed
               /\ IF BatchFull(batch)
                  THEN \E ua \in UpsertAnswers :
                         /\ UpsertRequest(batch, ua)
                         /\ IF insert_embeddings_to_vectorize(ua) = "KeyError"
                            THEN /\ emb_pc' = "aborted"
                                 /\ SetVectorsBatch(batch)
                            ELSE /\ SetVectorsBatch(<<>>)
                                 /\ UNCHANGED emb_pc
                  ELSE /\ SetVectorsBatch(batch)
                       /\ UNCHANGED <<upserts, emb_pc>>
  /\ UNCHANGED <<embFixed, emb_phase, emb_len>>

\* after a loop: the next loop starts, the image batch being emptied
\* before the second one; after the third the function returns
NextLoop ==
  /\ emb_pc' = IF emb_phase = 3 THEN "done" ELSE "loop"
  /\ emb_phase' = IF emb_phase = 3 THEN 3 ELSE emb_phase + 1
  /\ emb_i' = 0
  /\ image_vectors_batch' = IF emb_phase = 1 THEN <<>>
                            ELSE image_vectors_batch
  /\ UNCHANGED text_vectors_batch

\* the rows of a loop are exhausted: "if batch: insert_embeddings_..."
EndOfRows ==
  /\ emb_pc = "loop"
  /\ emb_i = emb_len[emb_phase]
  /\ IF VectorsBatch # <<>>
     THEN \E ua \in UpsertAnswers :
            /\ UpsertRequest(VectorsBatch, ua)
            /\ IF insert_embeddings_to_vectorize(ua) = "KeyError"
               THEN /\ emb_pc' = "aborted"
                    /\ UNCHANGED <<emb_phase, emb_i, image_vectors_batch,
                                   text_vectors_batch>>
               ELSE NextLoop
     ELSE /\ UNCHANGED upserts
          /\ NextLoop
  /\ UNCHANGED <<embFixed, emb_len, computed>>

NextEmbed == EmbedRecord \/ EndOfRows

SpecEmbed == InitEmbed /\ [][NextEmbed]_vars

\* ------------------------------- the main flow of the open-data script
\* __main__ of ingest_montreal_opendata.py calls its four ingestion
\* functions one after the other.  Each reads its source files row by row,
\* and d1_bulk_import is a blocking call: the caller goes on when the call
\* has returned, its job completed, failed or given up on an error.  A
\* statement is known by its file and its rank among the statements built
\* from that file.
MaxFileRows == 2

POLES_CSV == "poteaux-de-signalisation.csv"
PARKING_CSV == "signalisation_stationnement.csv"
NON_PARKING_CSV == "signalisation_excluant_stationnement.csv"
ZONES_CSV == "entraves-travaux-en-cours.csv"
IMPACTS_CSV == "impacts-entraves-travaux-en-cours.csv"
TAXI_CSV == "postestaxi.csv"

CsvFiles == {POLES_CSV, PARKING_CSV, NON_PARKING_CSV, ZONES_CSV,
             IMPACTS_CSV, TAXI_CSV}

NumFunctions == 4

\* the taxi stands ingested before the construction data
FunctionAtTaxiThird(n) ==
  CASE n = 1 -> "ingest_poles_data"
    [] n = 2 -> "ingest_montreal_sign_instances_data"
    [] n = 3 -> "ingest_taxi_stands_data"
    [] OTHER -> "ingest_construction_data"

\* the n-th call of __main__
FunctionAt(n) ==
  CASE n = 1 -> "ingest_poles_data"
    [] n = 2 -> "ingest_montreal_sign_instances_data"
    [] n = 3 -> "ingest_construction_data"
    [] OTHER -> "ingest_taxi_stands_data"

\* the source files of a function, in the order it reads them
FilesOf(fn) ==
  CASE fn = "ingest_poles_data" -> <<POLES_CSV>>
    [] fn = "ingest_montreal_sign_instances_data" ->
         <<PARKING_CSV, NON_PARKING_CSV>>
    [] fn = "ingest_construction_data" -> <<ZONES_CSV, IMPACTS_CSV>>
    [] OTHER -> <<TAXI_CSV>>

\* the table the statements of a file are built for and imported into
TableOf(file) ==
  CASE file = POLES_CSV -> "poles"
    [] file \in {PARKING_CSV, NON_PARKING_CSV} ->
         "montreal_open_data_sign_instances"
    [] file = ZONES_CSV -> "construction_zones"
    [] file = IMPACTS_CSV -> "construction_impact_details"
    [] OTHER -> "taxi_stands"

\* the existence checks at the top of a function that end it at once
ReturnsAtEntry(fn, exists) ==
  /\ fn # "ingest_montreal_sign_instances_data"
  /\ ~exists[FilesOf(fn)[1]]

\* a file that is passed over without being opened: "continue" in the
\* loop over the two sign files, "if impacts_csv_path.exists()"
SkipsFile(fn, k, exists) ==
  /\ ~exists[FilesOf(fn)[k]]
  /\ \/ fn = "ingest_montreal_sign_instances_data"
     \/ fn = "ingest_construction_data" /\ k = 2

\* a new empty list is bound before the k-th file of the function
NewBufferAt(fn, k) == k = 1 \/ fn = "ingest_construction_data"

\* the flush after the zones loop left out
FlushesAfterLastFileOnly(fn, k) == k = Len(FilesOf(fn))

\* the rest of the buffer handed over at the end of every file
FlushesAfterEveryFile(fn, k) == TRUE

\* "if batch: d1_bulk_import(...)" follows the k-th file of the function
FlushesAfter(fn, k) ==
  k = Len(FilesOf(fn)) \/ fn = "ingest_construction_data"

InitOpen ==
  /\ script = "montreal_opendata"
  /\ remote = "any"
  /\ json_error_is_request_exception = TRUE
  /\ batch_size \in 1..MaxBatchSize
  /\ RunInit
  /\ SqlOff
  /\ IdemOff
  /\ StartOff
  /\ EmbedOff
  /\ DataOff
  /\ open_pc = "file"
  /\ open_fn = 1
  /\ open_k = 1
  /\ open_i = 0
  /\ csv_exists \in [CsvFiles -> BOOLEAN]
  /\ open_batch = <<>>
  /\ open_built = <<>>
  /\ open_jobs = <<>>

openFixed == <<script, remote, json_error_is_request_exception, batch_size,
               runVars, jobs, phase, jobLocals, uploaded, sqlVars, keyVars,
               recVars, startVars, embVars, idemVars, dataVars>>

CurrentFunction == FunctionAt(open_fn)

CurrentFile == FilesOf(CurrentFunction)[open_k]

\* the function returns: the next call of __main__, or the end of the run
LeaveFunction ==
  /\ open_pc' = IF open_fn < NumFunctions THEN "file" ELSE "done"
  /\ open_fn' = IF open_fn < NumFunctions THEN open_fn + 1 ELSE open_fn
  /\ open_k' = IF open_fn < NumFunctions THEN 1 ELSE open_k

\* on to the next file of the function, or out of the function
Advance ==
  IF open_k < Len(FilesOf(CurrentFunction))
  THEN /\ open_pc' = "file"
       /\ open_k' = open_k + 1
       /\ UNCHANGED open_fn
  ELSE LeaveFunction

\* d1_bulk_import(table, batch) is entered from position `where`
CallD1(batch, where) ==
  /\ open_jobs' = Append(open_jobs, [table |-> TableOf(CurrentFile),
                                     stmts |-> batch, done |-> FALSE])
  /\ open_pc' = where
  /\ UNCHANGED <<open_fn, open_k>>

\* what follows the rows of a file, or a file passed over
AfterFile(batch) ==
  IF FlushesAfter(CurrentFunction, open_k) /\ batch # <<>>
  THEN CallD1(batch, "in_flush")
  ELSE Advance /\ UNCHANGED open_jobs

\* the checks before a file is read
OpenFile ==
  /\ open_pc = "file"
  /\ open_i' = 0
  /\ IF open_k = 1 /\ ReturnsAtEntry(CurrentFunction, csv_exists)
     THEN /\ LeaveFunction
          /\ UNCHANGED <<open_batch, open_jobs>>
     ELSE LET batch == IF NewBufferAt(CurrentFunction, open_k) THEN <<>>
                       ELSE open_batch
          IN /\ open_batch' = batch
             /\ IF SkipsFile(CurrentFunction, open_k, csv_exists)
                THEN AfterFile(batch)
                ELSE /\ open_pc' = "rows"
                     /\ UNCHANGED <<open_fn, open_k, open_jobs>>
  /\ UNCHANGED <<openFixed, csv_exists, open_built>>

BuiltFrom(file) == Cardinality({i \in 1..Len(open_built) :
                                  open_built[i].file = file})

\* a row whose statement is appended; a full buffer is handed over
BuildRow ==
  /\ open_pc = "rows"
  /\ open_i < MaxFileRows
  /\ open_i' = open_i + 1
  /\ LET stmt == [file |-> CurrentFile, n |-> BuiltFrom(CurrentFile) + 1]
         batch == Append(open_batch, stmt)
     IN /\ open_built' = Append(open_built, stmt)
        /\ open_batch' = batch
        /\ IF BatchFull(batch)
           THEN CallD1(batch, "in_import")
           ELSE UNCHANGED <<open_pc, open_fn, open_k, open_jobs>>
  /\ UNCHANGED <<openFixed, csv_exists>>

\* a row whose conversion raises inside the try block: printed, passed over
SkipRow ==
  /\ open_pc = "rows"
  /\ open_i < MaxFileRows
  /\ open_i' = open_i + 1
  /\ UNCHANGED <<openFixed, csv_exists, open_pc, open_fn, open_k, open_batch,
                 open_built, open_jobs>>

\* the reader is exhausted
EndOfFile ==
  /\ open_pc = "rows"
  /\ open_i' = 0
  /\ AfterFile(open_batch)
  /\ UNCHANGED <<openFixed, csv_exists, open_batch, open_built>>

\* d1_bulk_import returns: the loop empties its buffer and reads on, the
\* code after the loop goes on to what follows the file
ImportReturns ==
  /\ open_pc \in {"in_import", "in_flush"}
  /\ open_jobs' = [open_jobs EXCEPT ![Len(open_jobs)].done = TRUE]
  /\ IF open_pc = "in_import"
     THEN /\ open_batch' = BufferAfterImport(open_batch)
          /\ open_pc' = "rows"
          /\ UNCHANGED <<open_fn, open_k>>
     ELSE /\ Advance
          /\ UNCHANGED open_batch
  /\ UNCHANGED <<openFixed, csv_exists, open_i, open_built>>

NextOpen == OpenFile \/ BuildRow \/ SkipRow \/ EndOfFile \/ ImportReturns

SpecOpen == InitOpen /\ [][NextOpen]_vars

\* ------------------------------------------------- process_source_file
\* process_dataset.py scans the HTML source for <img> tags, downloads the
\* image of every reference that dataset.csv does not hold yet, and appends
\* one row per downloaded image.  A reference id is a string of characters;
\* a row of dataset.csv is kept as the line csv.writer wrote, and read back
\* the way csv.reader splits it.
MaxMatches == 3
MaxCsvRows == 2
MaxRuns == 2

CSV_QUOTE == "\""

\* what the alt attribute of a tag can hold
AltTexts == {<<>>, <<"x">>, <<" ", "x">>, <<"x", ",", "y">>}

\* the tags the regular expression finds: (alt, src)
Tags ==
  {[alt |-> a, src |-> <<"u">>] : a \in AltTexts}
  \cup {[alt |-> <<"x">>, src |-> <<>>]}

RECURSIVE TagLists(_)
TagLists(n) ==
  IF n = 0 THEN {<<>>}
  ELSE TagLists(n - 1)
       \cup {Append(l, t) : l \in TagLists(n - 1), t \in Tags}

\* str.strip() over the blank " "
RECURSIVE Strip(_)
Strip(str) ==
  IF str = <<>> THEN str
  ELSE IF Head(str) = " " THEN Strip(Tail(str))
  ELSE IF str[Len(str)] = " " THEN Strip(SubSeq(str, 1, Len(str) - 1))
  ELSE str

\* csv.writer: a field holding the delimiter is written between quotes
WriteField(field) ==
  IF \E i \in 1..Len(field) : field[i] = ","
  THEN <<CSV_QUOTE>> \o field \o <<CSV_QUOTE>>
  ELSE field

\* the line of a row: its first field, and the seven others as one token
WriteRow(reference_id) == WriteField(reference_id) \o <<",", "rest">>

\* csv.reader, row[0]: up to the closing quote of a quoted field, up to
\* the first delimiter of a bare one
RECURSIVE UpTo(_, _)
UpTo(line, c) ==
  IF line = <<>> \/ Head(line) = c THEN <<>>
  ELSE <<Head(line)>> \o UpTo(Tail(line), c)

FirstColumn(line) ==
  IF line # <<>> /\ Head(line) = CSV_QUOTE
  THEN UpTo(Tail(line), CSV_QUOTE)
  ELSE UpTo(line, ",")

\* the reference ids of the data rows of a file
RefsIn(lines) == {FirstColumn(lines[i]) : i \in 1..Len(lines)}

\* the reference ids this script can have written in earlier runs
WrittenRefs == {Strip(a) : a \in AltTexts} \ {<<>>}

RECURSIVE RowLists(_)
RowLists(n) ==
  IF n = 0 THEN {<<>>}
  ELSE RowLists(n - 1)
       \cup {Append(l, WriteRow(r)) : l \in RowLists(n - 1),
                                      r \in WrittenRefs}

\* processed_refs after the load: the first column of the data rows, and
\* nothing ("starting fresh") when reading raised IOError
LoadedRefs(lines, readable) == IF readable THEN RefsIn(lines) ELSE {}

\* the except clause returning from the function
AfterDownloadSkipsWrite(outcome) == IF outcome = "ok" THEN "loop" ELSE "done"

\* a failed download leaves the loop through an except clause that only
\* prints; the code after the try statement runs next
AfterDownload(outcome) == IF outcome = "ok" THEN "loop" ELSE "write"

DownloadOutcomes == {"ok", "RequestException", "Exception"}

InitData ==
  /\ script = "process_dataset"
  /\ remote = "any"
  /\ json_error_is_request_exception = TRUE
  /\ batch_size = 1
  /\ RunInit
  /\ SqlOff
  /\ IdemOff
  /\ StartOff
  /\ EmbedOff
  /\ OpenOff
  /\ ds_pc = "start"
  /\ ds_run = 1
  /\ html_exists \in BOOLEAN
  /\ matches \in IF html_exists THEN TagLists(MaxMatches) ELSE {<<>>}
  /\ csv_has_header \in BOOLEAN
  /\ csv_file \in IF csv_has_header THEN RowLists(MaxCsvRows) ELSE {<<>>}
  /\ csv_before = csv_file
  /\ processed_refs = {}
  /\ new_csv_rows = <<>>
  /\ ds_i = 0
  /\ requested = <<>>
  /\ failed_ref = <<>>
  /\ load_failed = FALSE
  /\ write_failed = FALSE
  /\ prev_complete = FALSE

dataFixed == <<script, remote, json_error_is_request_exception, batch_size,
               runVars, jobs, phase, jobLocals, uploaded, sqlVars, keyVars,
               recVars, startVars, embVars, idemVars, openVars>>

\* the source check and the load of the existing reference ids
LoadExisting ==
  /\ ds_pc = "start"
  /\ IF ~html_exists
     THEN /\ ds_pc' = "done"
          /\ UNCHANGED <<processed_refs, load_failed>>
     ELSE /\ ds_pc' = "loop"
          /\ IF csv_has_header
             THEN \E readable \in BOOLEAN :
                    /\ processed_refs' = LoadedRefs(csv_file, readable)
                    /\ load_failed' = ~readable
             ELSE UNCHANGED <<processed_refs, load_failed>>
  /\ UNCHANGED <<dataFixed, ds_run, matches, csv_file, csv_has_header,
                 csv_before, new_csv_rows, ds_i, requested, failed_ref,
                 html_exists, write_failed, prev_complete>>

\* one turn of the loop over the matches
TakeMatch ==
  /\ ds_pc = "loop"
  /\ ds_i < Len(matches)
  /\ ds_i' = ds_i + 1
  /\ LET reference_id == Strip(matches[ds_i + 1].alt)
         image_url == Strip(matches[ds_i + 1].src)
     IN IF reference_id = <<>> \/ image_url = <<>>
           \/ reference_id \in processed_refs
        THEN UNCHANGED <<ds_pc, requested, new_csv_rows, processed_refs,
                         failed_ref>>
        ELSE /\ requested' = Append(requested, reference_id)
             /\ \E outcome \in DownloadOutcomes :
                  /\ ds_pc' = AfterDownload(outcome)
                  /\ IF outcome = "ok"
                     THEN /\ new_csv_rows' = Append(new_csv_rows, reference_id)
                          /\ processed_refs' =
                               processed_refs \cup {reference_id}
                          /\ UNCHANGED failed_ref
                     ELSE /\ failed_ref' = reference_id
                          /\ UNCHANGED <<new_csv_rows, processed_refs>>
  /\ UNCHANGED <<dataFixed, ds_run, matches, csv_file, csv_has_header,
                 csv_before, html_exists, load_failed, write_failed,
                 prev_complete>>

\* the matches are exhausted
EndOfMatches ==
  /\ ds_pc = "loop"
  /\ ds_i = Len(matches)
  /\ ds_pc' = "write"
  /\ UNCHANGED <<dataFixed, ds_run, matches, csv_file, csv_has_header,
                 csv_before, processed_refs, new_csv_rows, ds_i, requested,
                 failed_ref, html_exists, load_failed, write_failed,
                 prev_complete>>

\* "if new_csv_rows:" the rows are appended, after the header when the
\* file is new; an IOError of the append is printed
AppendRows ==
  /\ ds_pc = "write"
  /\ ds_pc' = "done"
  /\ IF new_csv_rows # <<>>
     THEN \E writable \in BOOLEAN :
            IF writable
            THEN /\ csv_file' = csv_file \o
                      [i \in 1..Len(new_csv_rows) |-> WriteRow(new_csv_rows[i])]
                 /\ csv_has_header' = TRUE
                 /\ UNCHANGED write_failed
            ELSE /\ write_failed' = TRUE
                 /\ UNCHANGED <<csv_file, csv_has_header>>
     ELSE UNCHANGED <<csv_file, csv_has_header, write_failed>>
  /\ UNCHANGED <<dataFixed, ds_run, matches, csv_before, processed_refs,
                 new_csv_rows, ds_i, requested, failed_ref, html_exists,
                 load_failed, prev_complete>>

\* nothing failed in the run
Complete ==
  /\ html_exists
  /\ ~load_failed /\ failed_ref = <<>> /\ ~write_failed

\* the script is started again over the same HTML source
StartAgain ==
  /\ ds_pc = "done"
  /\ ds_run < MaxRuns
  /\ ds_run' = ds_run + 1
  /\ ds_pc' = "start"
  /\ prev_complete' = Complete
  /\ csv_before' = csv_file
  /\ processed_refs' = {}
  /\ new_csv_rows' = <<>>
  /\ ds_i' = 0
  /\ requested' = <<>>
  /\ failed_ref' = <<>>
  /\ load_failed' = FALSE
  /\ write_failed' = FALSE
  /\ UNCHANGED <<dataFixed, matches, csv_file, csv_has_header, html_exists>>

NextData ==
  LoadExisting \/ TakeMatch \/ EndOfMatches \/ AppendRows \/ StartAgain

SpecData == InitData /\ [][NextData]_vars

\* ====================================================== properties
RunEnded == pc \in {"done", "crashed"}

CurrentJob == jobs[Len(jobs)]

C3_ETagMismatchFailsBeforeIngest ==
  ("upload" \in {sent[i] : i \in 1..Len(sent)}
     /\ exc # "RequestException"
     /\ r2_etag # hash_str)
  => /\ phase = "returned"
     /\ exc = "Exception"
     /\ CurrentJob = "error"
     /\ sent = <<"init", "upload">>

\* a quoted foreign digest was echoed and the job stopped after the upload
C3_Witness ==
  /\ phase = "returned" /\ exc = "Exception"
  /\ r2_etag # <<>> /\ r2_etag # hash_str
  /\ sent = <<"init", "upload">>

\* the request kind that may stand at position i of a job's requests
ExpectedRequest(i) ==
  CASE i = 1 -> "init"
    [] i = 2 -> "upload"
    [] i = 3 -> "ingest"
    [] OTHER -> "poll"

\* C4: the requests of a job are a prefix of init, upload, ingest, poll,
\* poll, ...; an upload follows only an init that gave an upload target
\* and a filename, an ingest only an upload whose echoed tag matched the
\* checksum, a poll only an ingest that gave a bookmark.
C4_RequestOrder ==
  /\ \A i \in 1..Len(sent) : sent[i] = ExpectedRequest(i)
  /\ (Len(sent) >= 2 => upload_url # 0 /\ filename # 0)
  /\ (Len(sent) >= 3 => r2_etag = hash_str)
  /\ (Len(sent) >= 4 => bookmark # 0)

\* a job went through all phases and polled twice
C4_Witness == sent = <<"init", "upload", "ingest", "poll", "poll">>

\* C5: every job but the one of the batch handed over last has reached a
\* terminal outcome, so a job sends its init request only when all the
\* jobs before it are resolved.
C5_OneUnresolvedJob ==
  \A k \in 1..(Len(jobs) - 1) : jobs[k] # "unresolved"

\* the second job has sent its init request after the first was resolved
C5_Witness ==
  /\ Len(jobs) = 2 /\ sent = <<"init">>
  /\ jobs[1] \in {"completed", "failed", "error"}
  /\ jobs[2] = "unresolved"

\* C6: init, upload and ingest are each sent at most once per job, and
\* once a request of the job has failed the job sends no request any more.
C6_NoRetryNoLaterPhase ==
  /\ [](\A k \in {"init", "upload", "ingest"} : Count(sent, k) <= 1)
  /\ [][exc # "none" => (sent' = sent \/ sent' = <<>>)]_vars

\* the upload failed in the network and the job ended with two requests
C6_Witness ==
  /\ exc = "RequestException" /\ phase = "returned"
  /\ sent = <<"init", "upload">>

\* C7 (as claimed): d1_bulk_import gives its caller FAILED for an aborted
\* job and SUCCEEDED for a job whose poll reported success.
C7_ReturnsOutcome ==
  phase = "returned" =>
    /\ (exc # "none" => returned = "FAILED")
    /\ (printed = "completed" => returned = "SUCCEEDED")

\* C8 (as claimed): no failure of an import job lets an exception leave
\* d1_bulk_import or ends the run.
C8_FailureNeverAbortsRun == phase # "raised" /\ pc # "crashed"

\* a poll response that ends the loop: success, or the sentinel error
Terminating(resp) ==
  /\ resp.status = "ok"
  /\ \/ resp.result.success
     \/ /\ "error" \in DOMAIN resp.result
        /\ resp.result.error = NOT_IMPORTING

C10_SentinelIsSucceeded ==
  (/\ phase = "returned" /\ exc = "none" /\ poll_responses # <<>>
   /\ poll_responses[Len(poll_responses)].result
        = [success |-> FALSE, error |-> NOT_IMPORTING])
  => CurrentJob = "completed"

\* C11 (as claimed): a poll response that reports failure with a
\* non-transient error other than the sentinel is the last response of the
\* job: the loop is left and the job has ended as failed.
C11_NonTransientErrorEndsJob ==
  \A i \in 1..Len(poll_responses) :
    (/\ poll_responses[i].status = "ok"
     /\ poll_responses[i].result = [success |-> FALSE, error |-> NON_TRANSIENT])
    => /\ i = Len(poll_responses)
       /\ phase = "returned"
       /\ CurrentJob = "failed"

\* C12 (as claimed): a job that is polling eventually reaches a terminal
\* outcome, whatever the poll responses are.
C12_PollingJobTerminates == (phase = "poll") ~> JobResolved

\* C13: with a remote side on which every call succeeds, the upload echoes
\* the checksum and the first poll reports success, no job raises, a job
\* that has returned has sent exactly init, upload, ingest and one poll in
\* this order and is completed, and an ended run has ceil(N / batch_size)
\* jobs, all of them completed and none failed.
C13_ReliableRemoteAllCompleted ==
  remote = "reliable" =>
    /\ pc # "crashed" /\ phase # "raised"
    /\ (phase = "returned" =>
          /\ sent = <<"init", "upload", "ingest", "poll">>
          /\ CurrentJob = "completed")
    /\ \A k \in 1..(Len(jobs) - 1) : jobs[k] = "completed"
    /\ (pc = "done" =>
          /\ Len(jobs) = Ceil(Len(built), batch_size)
          /\ \A k \in 1..Len(jobs) : jobs[k] = "completed")

\* 3 records, batch size 2: batches of sizes 2 and 1, both completed
C13_Witness ==
  /\ remote = "reliable" /\ pc = "done"
  /\ batch_size = 2 /\ Len(built) = 3
  /\ Len(handed) = 2 /\ Len(handed[1]) = 2 /\ Len(handed[2]) = 1
  /\ jobs = <<"completed", "completed">>

CurrentBatch == handed[Len(handed)]

ExpectedPayload(batch) ==
  [i \in 1..(2 * Len(batch)) |->
     IF i % 2 = 1 THEN batch[(i + 1) \div 2]
     ELSE IF i = 2 * Len(batch) THEN StmtEnd ELSE StmtSep]

StatementsIn(payloads) == SelectSeq(Flatten(payloads), LAMBDA t : t > 0)

\* C20: every uploaded payload is a handed batch with ";\n" between
\* consecutive statements and one trailing ";", the payload of the upload
\* request just sent is the one of the current batch, and over the run the
\* statements of the uploaded payloads follow one another in the order the
\* records were read, none of them twice.
C20_PayloadContentAndOrder ==
  /\ \A j \in 1..Len(uploaded) :
       \E k \in 1..Len(handed) : uploaded[j] = ExpectedPayload(handed[k])
  /\ (Len(sent) >= 2 =>
        uploaded[Len(uploaded)] = ExpectedPayload(CurrentBatch))
  /\ LET st == StatementsIn(uploaded)
     IN \A i, j \in 1..Len(st) : i < j => st[i] < st[j]

\* two payloads were uploaded, of two statements and of one
C20_Witness ==
  /\ Len(uploaded) = 2
  /\ Len(uploaded[1]) = 4 /\ uploaded[1][2] = StmtSep
  /\ Len(uploaded[2]) = 2 /\ uploaded[2][2] = StmtEnd

\* ------------------------------------- reading a statement text back
IndexOf(text, c) ==
  CHOOSE i \in 1..Len(text) :
    text[i] = c /\ \A j \in 1..(i - 1) : text[j] # c

\* what stands between " (" and ") VALUES (", and between ") VALUES ("
\* and the closing ")"
ColumnsSection(text) == SubSeq(text, 5, IndexOf(text, ") VALUES (") - 1)

ValuesSection(text) ==
  SubSeq(text, IndexOf(text, ") VALUES (") + 1, Len(text) - 1)

\* the items of a comma separated list, as an SQL reader sees them: a
\* comma inside a quoted literal separates nothing, '' inside a quoted
\* literal is one quote character and does not end the literal
RECURSIVE SplitItems(_, _, _, _)
SplitItems(text, cur, quoted, acc) ==
  IF text = <<>> THEN Append(acc, cur)
  ELSE LET c == Head(text)
           rest == Tail(text)
       IN IF c = "'" /\ quoted /\ rest # <<>> /\ Head(rest) = "'"
          THEN SplitItems(Tail(rest), cur \o <<"'", "'">>, TRUE, acc)
          ELSE IF c = "'"
          THEN SplitItems(rest, Append(cur, c), ~quoted, acc)
          ELSE IF c = ", " /\ ~quoted
          THEN SplitItems(rest, <<>>, FALSE, Append(acc, cur))
          ELSE SplitItems(rest, Append(cur, c), quoted, acc)

ItemsOf(section) ==
  IF section = <<>> THEN <<>> ELSE SplitItems(section, <<>>, FALSE, <<>>)

ColumnsOf(text) ==
  LET items == ItemsOf(ColumnsSection(text))
  IN [i \in 1..Len(items) |-> items[i][1]]

LiteralsOf(text) == ItemsOf(ValuesSection(text))

IsQuoted(lit) ==
  Len(lit) >= 2 /\ lit[1] = "'" /\ lit[Len(lit)] = "'"

\* '' becomes ' again
RECURSIVE UnDouble(_)
UnDouble(text) ==
  IF text = <<>> THEN <<>>
  ELSE IF Head(text) = "'" /\ Len(text) >= 2 /\ text[2] = "'"
  THEN <<"'">> \o UnDouble(SubSeq(text, 3, Len(text)))
  ELSE <<Head(text)>> \o UnDouble(Tail(text))

\* the string an SQL reader gets from a quoted literal
Unquote(lit) == UnDouble(SubSeq(lit, 2, Len(lit) - 1))

\* no quote character inside the literal stands alone
RECURSIVE QuotesPaired(_)
QuotesPaired(text) ==
  IF text = <<>> THEN TRUE
  ELSE IF Head(text) # "'" THEN QuotesPaired(Tail(text))
  ELSE Len(text) >= 2 /\ text[2] = "'"
       /\ QuotesPaired(SubSeq(text, 3, Len(text)))

HasQuote(str) == \E i \in 1..Len(str) : str[i] = "'"

Built == sql_pc \in {"made", "appended"}

\* C14: in the statement make_sql_insert returns, the literal of a column
\* is the unquoted NULL exactly when the column's value is None; every
\* other value, the strings "None", "null", "NULL", the empty string, 0
\* and False among them, has a literal in single quotes.
C14_NullLiteralOnlyForNone ==
  Built =>
    LET lits == LiteralsOf(sql_insert)
    IN /\ Len(lits) = Len(data)
       /\ \A i \in 1..Len(data) :
            IF data[i].val = PyNone
            THEN lits[i] = <<"NULL">>
            ELSE IsQuoted(lits[i]) /\ lits[i] # <<"NULL">>

\* a record with a None and with the string "None" has been rendered
C14_Witness ==
  /\ sql_pc = "made" /\ Len(data) = 2
  /\ data[1].val = PyNone
  /\ data[2].val = [type |-> "str", str |-> <<"None">>]
  /\ LiteralsOf(sql_insert) = << <<"NULL">>, <<"'", "None", "'">> >>

\* C15 (as claimed): for a string value with a quote character, the
\* literal of its column in the statement appended to the batch has every
\* inner quote doubled and reads back as the original string.
C15_SubmittedLiteralRoundTrips ==
  sql_pc = "appended" =>
    \A i \in 1..Len(data) :
      (data[i].val.type = "str" /\ HasQuote(data[i].val.str)) =>
        LET lit == LiteralsOf(submitted_stmt)[i]
        IN /\ IsQuoted(lit)
           /\ QuotesPaired(SubSeq(lit, 2, Len(lit) - 1))
           /\ Unquote(lit) = data[i].val.str

\* C16: the statement of a record with k columns lists k column names and
\* k literals; the i-th name is the record's i-th column and the i-th
\* literal is NULL for None and otherwise reads back as str() of the
\* value of that column.
C16_ColumnsAndLiteralsAligned ==
  Built =>
    LET cols == ColumnsOf(sql_insert)
        lits == LiteralsOf(sql_insert)
    IN /\ Len(cols) = Len(data)
       /\ Len(lits) = Len(data)
       /\ \A i \in 1..Len(data) :
            /\ cols[i] = data[i].col
            /\ IF data[i].val = PyNone
               THEN lits[i] = <<"NULL">>
               ELSE IsQuoted(lits[i]) /\ Unquote(lits[i]) = Str(data[i].val)

\* two columns with different values, one of them holding a comma and a
\* quote, were listed in order
C16_Witness ==
  /\ sql_pc = "made" /\ Len(data) = 2
  /\ data[1].val = [type |-> "str", str |-> <<", ", "'">>]
  /\ data[2].val = [type |-> "int", int |-> 7]
  /\ ColumnsOf(sql_insert) = <<"sign_code", "category">>
  /\ LiteralsOf(sql_insert)[2] = <<"'", "7", "'">>

\* C17: the statement appended to the batch starts with INSERT OR REPLACE
\* INTO, and the plain INSERT INTO stands nowhere in it.
C17_OnlyUpsertStatements ==
  sql_pc = "appended" =>
    /\ submitted_stmt[1] = "INSERT OR REPLACE INTO"
    /\ \A i \in 1..Len(submitted_stmt) : submitted_stmt[i] # "INSERT INTO"

\* a statement for the poles table was appended as an upsert
C17_Witness ==
  /\ sql_pc = "appended" /\ table_name = "poles" /\ Len(data) = 2
  /\ sql_insert[1] = "INSERT INTO"
  /\ submitted_stmt[1] = "INSERT OR REPLACE INTO"

\* C18: after two complete successful runs over the same source, the
\* destination table holds the same rows as after the first run, and no
\* source record is held in two rows.
C18_RerunIsIdempotent ==
  (idem_pc = "done" /\ run = 2) =>
    /\ remote_table = after_first_run
    /\ \A r1, r2 \in remote_table : r1.record = r2.record => r1 = r2

\* C25: between two record iterations the batch buffer holds fewer than
\* batch_size statements, and when the in-loop import has returned,
\* completed or failed, the loop goes on with an empty buffer.
C25_BufferBelowBatchSize ==
  /\ [](pc = "loop" => Len(sql_statements_batch) < batch_size)
  /\ [][(pc = "in_import" /\ pc' = "loop") => sql_statements_batch' = <<>>]_vars

\* the loop was resumed with an empty buffer after an import that failed
C25_Witness ==
  /\ pc = "loop" /\ phase = "idle"
  /\ jobs # <<>> /\ jobs[Len(jobs)] \in {"error", "failed"}
  /\ Len(handed[Len(handed)]) = batch_size
  /\ sql_statements_batch = <<>>

RequestsOf(action) == {i \in 1..Len(sent) : sent[i] = action}

\* C26: in the requests of one job, the init and the ingest request carry
\* hash_str, hash_str is the digest of the data the put request carried,
\* the tag accepted by the comparison equals it, and the ingest request
\* carries the filename this job's init response gave.
C26_OneChecksumOneFilename ==
  /\ Len(sent_body) = Len(sent)
  /\ \A i \in RequestsOf("init") : sent_body[i].etag = hash_str
  /\ \A i \in RequestsOf("upload") :
       /\ HexDigest(sent_body[i].data) = hash_str
       /\ sent_body[i].url = upload_url
  /\ \A i \in RequestsOf("ingest") :
       /\ sent_body[i].etag = hash_str
       /\ r2_etag = hash_str
       /\ sent_body[i].filename = filename
       /\ filename = Len(jobs)

\* the second job of a run has sent its ingest request
C26_Witness ==
  /\ Len(jobs) = 2
  /\ sent = <<"init", "upload", "ingest">>
  /\ sent_body[3].filename = 2

\* C27: every poll request of a job carries the bookmark the job read from
\* its ingest response, the same in every poll whatever was answered.
C27_PollsCarryTheBookmark ==
  \A i \in RequestsOf("poll") :
    /\ sent_body[i].current_bookmark = bookmark
    /\ bookmark = Len(jobs)

\* the second job of a run polled twice, the first answer being an error
\* of the import that is not the sentinel
C27_Witness ==
  /\ Len(jobs) = 2
  /\ Count(sent, "poll") = 2
  /\ poll_responses[1].status = "ok"
  /\ ~poll_responses[1].result.success
  /\ sent_body[Len(sent)].current_bookmark = 2

\* a call of d1_bulk_import that no ingestion loop made
Direct == nread = 0 /\ handed # <<>>

\* C28: every payload put to the staging storage holds a statement, a job
\* with an empty statement list sends no request, the loops hand over no
\* empty list, and after the end of the input the number of batches is
\* ceil(N / batch_size): the flush added at most one, and none when the
\* buffer was empty.
C28_NoEmptyBatchReachesRemote ==
  /\ \A i \in 1..Len(uploaded) :
       \E j \in 1..Len(uploaded[i]) : uploaded[i][j] > 0
  /\ (handed # <<>> /\ handed[Len(handed)] = <<>>) =>
       /\ sent = <<>>
       /\ phase \in {"start", "returned", "idle"}
  /\ ~Direct => \A i \in 1..Len(handed) : handed[i] # <<>>
  /\ (~Direct /\ pc \in {"in_flush", "done"}) =>
       Len(handed) = Ceil(Len(built), batch_size)

\* d1_bulk_import returned on an empty list without a request
C28_Witness ==
  /\ handed = << <<>> >>
  /\ phase = "returned" /\ printed = "no_statements"
  /\ sent = <<>> /\ uploaded = <<>>

\* the row has no key: its column is not in the header, or the row is too
\* short to reach it
LacksKey(cell) == ~cell.in_header \/ cell.val = PyNone

\* C23 (as claimed): the statement appended for a row names the key column
\* of its table first and gives it a literal that is not NULL, and a row
\* without the key field gets no statement.
C23_NaturalKeyAlwaysPresent ==
  /\ (sql_pc = "appended" /\ csv_row # <<>>) =>
       /\ ColumnsOf(submitted_stmt)[1] = KeyColumn(table_name)
       /\ LiteralsOf(submitted_stmt)[1] # <<"NULL">>
  /\ (csv_row # <<>> /\ KeyFromSource(table_name) /\ LacksKey(csv_row[1])) =>
       ~Built

\* C24 (as claimed): make_sql_insert returns a statement only for a record
\* that has a column and whose values all have a supported type.
C24_InvalidRecordIsRejected ==
  Built =>
    /\ data # <<>>
    /\ \A i \in 1..Len(data) : data[i].val.type \in SupportedTypes

\* C30 (as claimed): the appended statement is the built one with its
\* leading INSERT INTO exchanged, and nothing else changed.
C30_UpsertChangesOnlyTheKeyword ==
  sql_pc = "appended" =>
    submitted_stmt = <<"INSERT OR REPLACE INTO">> \o Tail(sql_insert)

\* C29 (as claimed): when a record could not be turned into a statement
\* the run is not stopped by it, and a run that reached its end has
\* handed over every statement built.
C29_UnbuildableRecordIsSkipped ==
  last_failure # "none" =>
    /\ pc # "aborted"
    /\ (pc = "done" => Flatten(handed) = built)

\* C21: a script started with the account id or the API token not set
\* (or set to the empty text) never gets beyond its credentials check: no
\* record is read, no statement is built and no request is sent.
C21_NoCredentialsNoIngestion ==
  (~EnvTruthy(ACCOUNT_ID) \/ ~EnvTruthy(API_TOKEN)) =>
    /\ start_pc \in {"module", "exited"}
    /\ nread = 0 /\ built = <<>> /\ remote_requests = 0

\* the embeddings script left at once with the token missing
C21_Witness ==
  /\ script = "generate_embeddings"
  /\ ACCOUNT_ID = <<"set">> /\ API_TOKEN = <<"None">>
  /\ start_pc = "exited" /\ nread = 0 /\ remote_requests = 0

UpsertedVectors == Flatten([i \in 1..Len(upserts) |-> upserts[i].vectors])

\* C22 (as claimed): every upsert request carries between 1 and batch_size
\* vectors and goes to the index of their kind; the vectors sent are, in
\* order and without repetition, vectors that were computed, and all of
\* them once the function has returned; and no failed embedding or upsert
\* ends the function before its third loop is over.
C22_VectorsUpsertedOncePerKind ==
  /\ \A i \in 1..Len(upserts) :
       /\ upserts[i].vectors # <<>>
       /\ Len(upserts[i].vectors) <= batch_size
       /\ \A j \in 1..Len(upserts[i].vectors) :
            upserts[i].index =
              IF upserts[i].vectors[j].type = "sign_explanation"
              THEN TEXT_VECTORIZE_INDEX_ID ELSE IMAGE_VECTORIZE_INDEX_ID
  /\ IsPrefix(UpsertedVectors, computed)
  /\ \A i, j \in 1..Len(UpsertedVectors) :
       UpsertedVectors[i] = UpsertedVectors[j] => i = j
  /\ (emb_pc = "done" => UpsertedVectors = computed)
  /\ emb_pc # "aborted"

\* ------------------------------------------------ open-data main flow
\* the statements handed to d1_bulk_import for a table, in order
SubmittedFor(table) ==
  Flatten([i \in 1..Len(open_jobs) |->
             IF open_jobs[i].table = table THEN open_jobs[i].stmts
             ELSE <<>>])

BuiltFor(table) ==
  SelectSeq(open_built, LAMBDA stmt : TableOf(stmt.file) = table)

\* the call of the function in __main__ has returned
HasReturned(fn) ==
  \E n \in 1..NumFunctions :
    /\ FunctionAt(n) = fn
    /\ n < open_fn \/ open_pc = "done"

\* the pairs (earlier table, later table) of the dependency order
DependencyOrder ==
  { <<"poles", "montreal_open_data_sign_instances">>,
    <<"montreal_open_data_sign_instances", "construction_zones">>,
    <<"construction_zones", "construction_impact_details">>,
    <<"construction_zones", "taxi_stands">>,
    <<"construction_impact_details", "taxi_stands">> }

\* C31: in the open-data run, every import job of a table has reached a
\* terminal outcome (its call has returned) before the first job of the
\* table that follows it in the dependency order starts: poles before
\* sign instances, sign instances before construction zones, zones before
\* impacts, both construction tables before taxi stands.
C31_TablesInDependencyOrder ==
  \A i, j \in 1..Len(open_jobs) :
    <<open_jobs[i].table, open_jobs[j].table>> \in DependencyOrder
      => i < j /\ open_jobs[i].done

C31_Witness ==
  /\ open_pc = "done"
  /\ \A f \in CsvFiles :
       \E i \in 1..Len(open_jobs) : open_jobs[i].table = TableOf(f)

\* C32: with the zones file missing, no statement is submitted for either
\* construction table, whether the impacts file exists or not; with only
\* the impacts file missing, every construction-zone statement built is
\* submitted once ingest_construction_data has returned, and no
\* construction-impact statement is submitted.
C32_MissingConstructionFiles ==
  open_pc # "off" =>
    /\ ~csv_exists[ZONES_CSV] =>
         /\ SubmittedFor("construction_zones") = <<>>
         /\ SubmittedFor("construction_impact_details") = <<>>
    /\ (csv_exists[ZONES_CSV] /\ ~csv_exists[IMPACTS_CSV]) =>
         /\ SubmittedFor("construction_impact_details") = <<>>
         /\ HasReturned("ingest_construction_data") =>
              SubmittedFor("construction_zones") =
                BuiltFor("construction_zones")

C32_Witness ==
  /\ csv_exists[ZONES_CSV] /\ ~csv_exists[IMPACTS_CSV]
  /\ HasReturned("ingest_construction_data")
  /\ Len(SubmittedFor("construction_zones")) = MaxFileRows
  /\ batch_size > MaxFileRows

SignsTable == "montreal_open_data_sign_instances"

FilesIn(stmts) == {stmts[i].file : i \in 1..Len(stmts)}

\* C33: the two sign files share one batch buffer: what the first file
\* leaves in it is not handed over at the end of that file but goes on
\* filling with the second file's statements, so every batch submitted for
\* the sign instances but the last holds exactly batch_size statements; a
\* missing file is passed over, and once the function has returned every
\* statement built from the other file has been submitted.
C33_SignFilesShareOneBuffer ==
  open_pc # "off" =>
    /\ \A i, j \in 1..Len(open_jobs) :
         (i < j /\ open_jobs[i].table = SignsTable
                /\ open_jobs[j].table = SignsTable)
           => Len(open_jobs[i].stmts) = batch_size
    /\ \A f \in {PARKING_CSV, NON_PARKING_CSV} :
         ~csv_exists[f] => BuiltFrom(f) = 0
    /\ HasReturned("ingest_montreal_sign_instances_data") =>
         SubmittedFor(SignsTable) = BuiltFor(SignsTable)

C33_Witness ==
  /\ HasReturned("ingest_montreal_sign_instances_data")
  /\ \E i \in 1..Len(open_jobs) :
       /\ open_jobs[i].table = SignsTable
       /\ FilesIn(open_jobs[i].stmts) = {PARKING_CSV, NON_PARKING_CSV}
       /\ \E j \in 1..Len(open_jobs) :
            j > i /\ open_jobs[j].table = SignsTable

\* -------------------------------------------------- process_source_file
NoDuplicate(seq) ==
  \A i, j \in 1..Len(seq) : i # j => seq[i] # seq[j]

RefsOf(lines) == [i \in 1..Len(lines) |-> FirstColumn(lines[i])]

\* the lines the run has added to dataset.csv
Appended == SubSeq(csv_file, Len(csv_before) + 1, Len(csv_file))

RowsOf(refs) == [i \in 1..Len(refs) |-> WriteRow(refs[i])]

\* C34 (as claimed): a reference id that the first column of the existing
\* dataset.csv holds, or that was processed earlier in the run, is not
\* downloaded and not appended again; a file that held no duplicate
\* reference id before the run holds none after it; and a run over the
\* unchanged HTML source that follows a complete run appends nothing.
C34_KnownReferenceNeverProcessedAgain ==
  ds_pc # "off" =>
    /\ \A i \in 1..Len(requested) : requested[i] \notin RefsIn(csv_before)
    /\ NoDuplicate(requested)
    /\ \A i \in 1..Len(Appended) :
         FirstColumn(Appended[i]) \notin RefsIn(csv_before)
    /\ NoDuplicate(RefsOf(csv_before)) => NoDuplicate(RefsOf(csv_file))
    /\ prev_complete => requested = <<>> /\ csv_file = csv_before

\* what a failed download leaves behind, whatever the append does: the
\* loop has stopped at the failed reference, and the rows collected are
\* those of the references requested before it
StoppedAtFailure ==
  /\ ds_pc \in {"write", "done"}
  /\ Strip(matches[ds_i].alt) = failed_ref
  /\ requested = Append(new_csv_rows, failed_ref)
  /\ \A i \in 1..Len(Appended) : FirstColumn(Appended[i]) # failed_ref

====
